---- MODULE Spec2Model ----
(***************************************************************************)
(* Fixed-point sine / cosine approximation (fixed_sincos.c).               *)
(*                                                                         *)
(* sine() and cosine() are pure functions of a 20-bit angle; both end in   *)
(* clamp_overflow(sum, 18), whose assert() is the only way a call can fail *)
(* to return.  The functions are modelled as operators computed the way    *)
(* the C code computes them; a call is one action that applies the         *)
(* operator to the argument drawn by Init.                                 *)
(*                                                                         *)
(* Arithmetic: every uint64_t product in the source has both operands      *)
(* below 2^18 + 1, so it never wraps at 64 bits; the model keeps the exact *)
(* value.  TLC's integers are 32 bits wide, so a product followed by its   *)
(* right shift is evaluated on 9-bit limbs (MulShr) with the same result.  *)
(* Right shift of a negative int64_t is the arithmetic shift every         *)
(* supported compiler emits (floor division), and -1 << n is -(2^n).       *)
(***************************************************************************)
EXTENDS Integers, Naturals, Sequences, FiniteSets, TLC

VARIABLES pc, fn, value, width, sum, ret

vars == <<pc, fn, value, width, sum, ret>>

(***************************************************************************)
(* Program constants                                                       *)
(***************************************************************************)
InputBits == 20     \* "Input: 20-bit unsigned fixed point integer"
OutWidth == 18      \* clamp_overflow(sum, 18)
k1 == 205887
k3 == 169336
k5 == 167014
k7 == 150000
k2 == 161704
k4 == 132996
k6 == 175016
k8 == 241700

(***************************************************************************)
(* Bounds of the directly driven clamp_overflow calls                      *)
(***************************************************************************)
MaxWidth == 6       \* widths 1 .. MaxWidth
ExtraBits == 2      \* accumulator values range over [-2^(MaxWidth+ExtraBits), 2^(MaxWidth+ExtraBits)]

(***************************************************************************)
(* Bit helpers                                                             *)
(***************************************************************************)
\* value >> n for a signed 64-bit value (arithmetic shift)
Shr(v, n) == v \div (2 ^ n)

\* (value >> n) & 0x01
Bit(v, n) == Shr(v, n) % 2

\* ~v on two's complement
BitNot(v) == (-v) - 1

\* (a * b) >> s on uint64_t, for 0 <= a, b <= 2^18 and s >= 9
MulShr(a, b, s) ==
    LET ah == a \div 512
        al == a % 512
        bh == b \div 512
        bl == b % 512
        t  == (ah * bl + al * bh) * 512 + al * bl
        q  == ah * bh + t \div 262144
        r  == t % 262144
    IN  IF s >= 18 THEN q \div (2 ^ (s - 18))
        ELSE q * (2 ^ (18 - s)) + r \div (2 ^ s)

(***************************************************************************)
(* clamp_overflow                                                          *)
(***************************************************************************)
\* variant: positive saturation value written (1 << width) - 1
clamp_saturate_wide(v, w) ==
    LET high0 == Bit(v, w) = 1
        high1 == Bit(v, w - 1) = 1
    IN  IF high0 # high1
        THEN IF high0 THEN -(2 ^ (w - 1)) ELSE (2 ^ w) - 1
        ELSE v

\* variant: the saturation step left out
clamp_saturate_none(v, w) == v

\* variant: the two saturation branches exchanged
clamp_saturate_swapped(v, w) ==
    LET high0 == Bit(v, w) = 1
        high1 == Bit(v, w - 1) = 1
    IN  IF high0 # high1
        THEN IF high0 THEN (2 ^ (w - 1)) - 1 ELSE -(2 ^ (w - 1))
        ELSE v

\* lines 30-38: the two-bit window saturation
clamp_saturate(v, w) ==
    LET high0 == Bit(v, w) = 1
        high1 == Bit(v, w - 1) = 1
    IN  IF high0 # high1
        THEN IF high0 THEN -(2 ^ (w - 1)) ELSE (2 ^ (w - 1)) - 1
        ELSE v

\* lines 41-42: the sanity assertion on the clamped value
clamp_sane(v, w) ==
    LET high == Shr(v, w - 1)
    IN  (high = 0) \/ (high = -1)

(***************************************************************************)
(* Domain reduction shared by sine and cosine                              *)
(***************************************************************************)
\* variant: reflection by bitwise complement, (~x1) & 0x3ffff
fold_x1_complement(v) ==
    LET x1 == v % 262144
    IN  IF Bit(v, 18) = 1 THEN (262144 - 1 - x1) % 262144 ELSE x1

\* x1 = value & 0x3ffff; if (high1) x1 = ((1 << 18) - x1) & 0x3ffff
fold_x1(v) ==
    LET x1 == v % 262144
    IN  IF Bit(v, 18) = 1 THEN (262144 - x1) % 262144 ELSE x1

(***************************************************************************)
(* sine                                                                    *)
(***************************************************************************)
\* variant: the final rescale sum >> 1 left out
sine_poly_noshift(x1) ==
    LET x2  == MulShr(x1, x1, 18)
        x3  == MulShr(x2, x1, 18)
        x5  == MulShr(x2, x3, 18)
        x7  == MulShr(x2, x5, 18)
        kx1 == MulShr(k1, x1, 17)
        kx3 == MulShr(k3, x3, 18)
        kx5 == MulShr(k5, x5, 21)
        kx7 == MulShr(k7, x7, 25)
    IN  kx1 - kx3 + kx5 - kx7

\* lines 91-104: powers, polynomial terms, alternating sum, rescale to 2^17
sine_poly(x1) ==
    LET x2  == MulShr(x1, x1, 18)
        x3  == MulShr(x2, x1, 18)
        x5  == MulShr(x2, x3, 18)
        x7  == MulShr(x2, x5, 18)
        kx1 == MulShr(k1, x1, 17)
        kx3 == MulShr(k3, x3, 18)
        kx5 == MulShr(k5, x5, 21)
        kx7 == MulShr(k7, x7, 25)
    IN  Shr(kx1 - kx3 + kx5 - kx7, 1)

\* variant: the `one` override left out
sine_sum_no_one(v) ==
    LET high0    == Bit(v, 19) = 1
        x1       == fold_x1(v)
        negative == high0
        s1       == sine_poly(x1)
    IN  IF negative THEN BitNot(s1) + 1 ELSE s1

\* variant: negation written ~sum, without the + 1
sine_sum_not(v) ==
    LET high0    == Bit(v, 19) = 1
        high1    == Bit(v, 18) = 1
        x1       == fold_x1(v)
        negative == high0
        one      == (x1 = 0) /\ high1
        s1       == IF one THEN 2 ^ 17 ELSE sine_poly(x1)
    IN  IF negative THEN BitNot(s1) ELSE s1

\* lines 81-112: the accumulator handed to clamp_overflow
sine_sum(v) ==
    LET high0    == Bit(v, 19) = 1
        high1    == Bit(v, 18) = 1
        x1       == fold_x1(v)
        negative == high0
        one      == (x1 = 0) /\ high1
        s1       == IF one THEN 2 ^ 17 ELSE sine_poly(x1)
    IN  IF negative THEN BitNot(s1) + 1 ELSE s1

\* lines 69-114: the value sine returns
sine(v) == clamp_saturate(sine_sum(v), OutWidth)

(***************************************************************************)
(* cosine                                                                  *)
(***************************************************************************)
\* variant: leading term written 1 << 17
cosine_poly_half(x1) ==
    LET x2  == MulShr(x1, x1, 18)
        x4  == MulShr(x2, x2, 18)
        x6  == MulShr(x4, x2, 18)
        x8  == MulShr(x4, x4, 18)
        kx2 == MulShr(k2, x2, 17)
        kx4 == MulShr(k4, x4, 19)
        kx6 == MulShr(k6, x6, 23)
        kx8 == MulShr(k8, x8, 28)
    IN  Shr((2 ^ 17) - kx2 + kx4 - kx6 + kx8, 1)

\* lines 152-165
cosine_poly(x1) ==
    LET x2  == MulShr(x1, x1, 18)
        x4  == MulShr(x2, x2, 18)
        x6  == MulShr(x4, x2, 18)
        x8  == MulShr(x4, x4, 18)
        kx2 == MulShr(k2, x2, 17)
        kx4 == MulShr(k4, x4, 19)
        kx6 == MulShr(k6, x6, 23)
        kx8 == MulShr(k8, x8, 28)
    IN  Shr((2 ^ 18) - kx2 + kx4 - kx6 + kx8, 1)

\* variant: the `zero` override left out
cosine_sum_no_zero(v) ==
    LET high0    == Bit(v, 19) = 1
        high1    == Bit(v, 18) = 1
        x1       == fold_x1(v)
        negative == high0 # high1
        s1       == cosine_poly(x1)
    IN  IF negative THEN BitNot(s1) + 1 ELSE s1

\* lines 142-173
cosine_sum(v) ==
    LET high0    == Bit(v, 19) = 1
        high1    == Bit(v, 18) = 1
        x1       == fold_x1(v)
        negative == high0 # high1
        zero     == (x1 = 0) /\ high1
        s1       == IF zero THEN 0 ELSE cosine_poly(x1)
    IN  IF negative THEN BitNot(s1) + 1 ELSE s1

\* lines 130-175: the value cosine returns
cosine(v) == clamp_saturate(cosine_sum(v), OutWidth)

(***************************************************************************)
(* State machine: one call on an argument drawn by Init                    *)
(***************************************************************************)
Inputs == 0 .. (2 ^ InputBits) - 1

Widths == 1 .. MaxWidth

ClampValues == -(2 ^ (MaxWidth + ExtraBits)) .. 2 ^ (MaxWidth + ExtraBits)

\* a caller about to call sine or cosine on a 20-bit angle
Init ==
    /\ pc = "call"
    /\ fn = "none"
    /\ value \in Inputs
    /\ width = OutWidth
    /\ sum = 0
    /\ ret = 0

\* a caller about to call clamp_overflow directly
InitClamp ==
    /\ pc = "call"
    /\ fn = "none"
    /\ value \in ClampValues
    /\ width \in Widths
    /\ sum = 0
    /\ ret = 0

\* clamp_overflow(s, width): saturate, assert, return
Finish(f, s) ==
    /\ fn' = f
    /\ sum' = s
    /\ UNCHANGED <<value, width>>
    /\ IF clamp_sane(clamp_saturate(s, width), width)
       THEN pc' = "done" /\ ret' = clamp_saturate(s, width)
       ELSE pc' = "abort" /\ ret' = ret

CallSine ==
    /\ pc = "call"
    /\ Finish("sine", sine_sum(value))

CallCosine ==
    /\ pc = "call"
    /\ Finish("cosine", cosine_sum(value))

CallClamp ==
    /\ pc = "call"
    /\ Finish("clamp", value)

Next == CallSine \/ CallCosine

NextClamp == CallClamp

Spec == Init /\ [][Next]_vars

SpecClamp == InitClamp /\ [][NextClamp]_vars

(***************************************************************************)
(* Properties                                                              *)
(***************************************************************************)
Returned(f) == pc = "done" /\ fn = f

FlipBit19(v) == IF Bit(v, 19) = 1 THEN v - 2 ^ 19 ELSE v + 2 ^ 19

WindowDiffers == Bit(value, width) # Bit(value, width - 1)

MinOut(w) == -(2 ^ (w - 1))

MaxOut(w) == (2 ^ (w - 1)) - 1

Saturated(v, w) == IF v < MinOut(w) THEN MinOut(w) ELSE IF v > MaxOut(w) THEN MaxOut(w) ELSE v

\* C1: for every 20-bit input, sine and cosine return a value r with
\* -2^17 <= r <= 2^17.
C1_Range ==
    (pc # "call") => (pc = "done" /\ ret >= -(2 ^ 17) /\ ret <= 2 ^ 17)

C1_Witness == Returned("sine") /\ value = 3 * (2 ^ 18) /\ ret = -(2 ^ 17)

\* C2 as stated: sine at 1/4 turn (v = 2^18) returns exactly 2^17.
C2_SineQuarterIsOne ==
    (Returned("sine") /\ value = 2 ^ 18) => ret = 2 ^ 17

\* C2 amended: at v = 2^18 the `one` flag sets the accumulator to 2^17 and
\* clamp_overflow(sum, 18) saturates it, so sine returns 2^17 - 1.
C2_SineQuarterSaturates ==
    (pc # "call" /\ fn = "sine" /\ value = 2 ^ 18)
        => (pc = "done" /\ sum = 2 ^ 17 /\ ret = (2 ^ 17) - 1)

C2_Witness == Returned("sine") /\ value = 2 ^ 18 /\ ret = 131071

\* C3 as stated: flipping bit 19 of the input exactly negates the value
\* returned by sine and by cosine.
C3_FlipNegates ==
    /\ Returned("sine") => sine(FlipBit19(value)) = -ret
    /\ Returned("cosine") => cosine(FlipBit19(value)) = -ret

\* C3 amended: flipping bit 19 negates the accumulator handed to the clamp;
\* the returned values are exact negations of each other unless that
\* accumulator is 2^17 or -2^17, where the pair returned is 2^17 - 1 and -2^17.
C3_FlipNegatesUnlessSaturated ==
    LET other == IF fn = "sine" THEN sine(FlipBit19(value)) ELSE cosine(FlipBit19(value))
        otherSum == IF fn = "sine" THEN sine_sum(FlipBit19(value)) ELSE cosine_sum(FlipBit19(value))
    IN  (pc = "done") =>
            /\ otherSum = -sum
            /\ IF sum = 2 ^ 17 THEN ret = (2 ^ 17) - 1 /\ other = -(2 ^ 17)
               ELSE IF sum = -(2 ^ 17) THEN ret = -(2 ^ 17) /\ other = (2 ^ 17) - 1
               ELSE other = -ret

C3_Witness ==
    Returned("sine") /\ Bit(value, 19) = 1 /\ ret < 0 /\ ret > -(2 ^ 17)
        /\ sine(FlipBit19(value)) = -ret

\* C4: for every 20-bit input the assertion in clamp_overflow holds, the call
\* returns, and the accumulator handed to the clamp lies in [-2^18, 2^18).
C4_Total ==
    (pc # "call") =>
        /\ clamp_sane(clamp_saturate(sum, width), width)
        /\ pc = "done"
        /\ sum >= -(2 ^ 18)
        /\ sum < 2 ^ 18

C4_Witness == Returned("cosine") /\ sum = 2 ^ 17 /\ ret = (2 ^ 17) - 1

\* C5: cosine returns exactly 0 at every input whose bit 18 is set and whose
\* low 18 bits are 0 (v = 2^18 and v = 3 * 2^18).
C5_CosineZero ==
    (pc # "call" /\ fn = "cosine" /\ Bit(value, 18) = 1 /\ value % (2 ^ 18) = 0)
        => (pc = "done" /\ ret = 0)

C5_Witness == Returned("cosine") /\ value = 2 ^ 18 /\ ret = 0

\* C6 as stated: at input 0 sine returns 0 and cosine returns exactly 2^17.
C6_ZeroAngleExact ==
    /\ (Returned("sine") /\ value = 0) => ret = 0
    /\ (Returned("cosine") /\ value = 0) => ret = 2 ^ 17

\* C6 amended: at input 0 sine returns 0; the cosine polynomial sum is exactly
\* 2^17 and clamp_overflow(sum, 18) saturates it, so cosine returns 2^17 - 1.
C6_ZeroAngleSaturates ==
    /\ (pc # "call" /\ fn = "sine" /\ value = 0) => (pc = "done" /\ ret = 0)
    /\ (pc # "call" /\ fn = "cosine" /\ value = 0)
            => (pc = "done" /\ sum = 2 ^ 17 /\ ret = (2 ^ 17) - 1)

C6_Witness == Returned("cosine") /\ value = 0 /\ ret = 131071

\* C7 as stated: a direct clamp_overflow call whose value has bit `width` and
\* bit `width-1` different aborts instead of returning.
C7_WindowViolationAborts ==
    (pc # "call" /\ fn = "clamp" /\ WindowDiffers) => pc = "abort"

\* C7 amended: a value whose two window bits differ is saturated and returned;
\* the call aborts exactly when the two bits agree and the value lies outside
\* the width-bit two's-complement range.
C7_AbortsOnlyBeyondWindow ==
    (pc # "call" /\ fn = "clamp") =>
        /\ WindowDiffers => pc = "done"
        /\ (pc = "abort") <=>
                (~WindowDiffers /\ (value < MinOut(width) \/ value > MaxOut(width)))

C7_Witness ==
    pc = "abort" /\ fn = "clamp" /\ width = 3 /\ value = 16

C10_Reflection ==
    /\ Returned("cosine") => cosine(((2 ^ 20) - value) % (2 ^ 20)) = ret
    /\ (Returned("sine") /\ value <= 2 ^ 19) => sine((2 ^ 19) - value) = ret

C10_Witness ==
    Returned("sine") /\ value = 262631 /\ ret = 131071 /\ sine(261657) = 131071
====
